---- MODULE Spec2Model ----
(***************************************************************************)
(* Red-black tree of src/rbtree/src/rbtree.rs (RBTree<K, V>).              *)
(*                                                                         *)
(* The tree is a graph of heap cells linked by parent/left/right pointers. *)
(* A tree value is the record [root, len, heap]; every method of RBTree is *)
(* an operator from a tree value (and its arguments) to the tree value it  *)
(* leaves behind, and every public method is one action.                   *)
(*                                                                         *)
(* The node layer (crate::rbnode, NodePtr) is not part of the sources at   *)
(* hand; its operators are written from section 4.1 of the specification.  *)
(***************************************************************************)
EXTENDS Integers, FiniteSets, Sequences, TLC

\* ------------------------------------------------------------------ bounds
\* keys are 1..MaxKey
MaxKey == 8
\* RBTree::len is a usize that clear() never resets: calls that would take
\* the counter beyond MaxLen are not explored
MaxLen == 8
\* the calls checked against a reference map use the keys 1..MaxMapKey and
\* the values 1..MaxVal
MaxMapKey == 5
MaxVal == 2

\* the trees that cursors walk hold the keys 1..MaxIterKey
MaxIterKey == 4

\* two trees side by side hold the keys 1..MaxPairKey, and neither of them
\* is taken beyond a len of MaxPairLen
MaxPairKey == 2
MaxPairLen == 2

\* the trees whose calls are watched step by step hold the keys 1..MaxWatchKey
MaxWatchKey == 7

\* the trees grown by ascending inserts hold the keys 1..MaxDeepKey
MaxDeepKey == 10

\* the sequences given to extend and from_iter hold up to MaxSeqLen pairs
\* with the keys 1..MaxExtKey
MaxExtKey == 3
MaxSeqLen == 2

Keys == 1..MaxKey
PairKeys == 1..MaxPairKey
IterKeys == 1..MaxIterKey
WatchKeys == 1..MaxWatchKey
DeepKeys == 1..MaxDeepKey
ExtKeys == 1..MaxExtKey
MapKeys == 1..MaxMapKey
Vals == 1..MaxVal

\* ------------------------------------------------------- node layer (4.1)
\* NodePtr::null()
Null == 0
\* Option::None for a value; Option::None for a pair (K, V)
None == 0
NoPair == <<None, None>>

\* The cell a NodePtr points to.  The allocator hands out the cell indexed
\* by the key of the node: the keys of the live nodes of a tree are unique,
\* so no two live nodes share a cell.
Addr == Keys \cup DeepKeys

\* a cell that holds no node (never allocated, or given back by Box::from_raw)
FreeCell ==
  [key |-> 0, value |-> 0, color |-> "Free", parent |-> Null, left |-> Null, right |-> Null]

\* NodePtr::new(k, v): a fresh node without links
NodePtr_new(h, k, v) ==
  [h EXCEPT ![k] = [key |-> k, value |-> v, color |-> "Red",
                    parent |-> Null, left |-> Null, right |-> Null]]

\* Box::from_raw(node.0): the cell is given back to the allocator
Box_from_raw(h, n) == IF n = Null THEN h ELSE [h EXCEPT ![n] = FreeCell]

\* NodePtr::parent / left / right: an absent node has absent links
parent_of(h, n) == IF n = Null THEN Null ELSE h[n].parent
left_of(h, n) == IF n = Null THEN Null ELSE h[n].left
right_of(h, n) == IF n = Null THEN Null ELSE h[n].right

\* NodePtr::set_parent / set_left / set_right
set_parent(h, n, p) == IF n = Null THEN h ELSE [h EXCEPT ![n].parent = p]
set_left(h, n, c) == IF n = Null THEN h ELSE [h EXCEPT ![n].left = c]
set_right(h, n, c) == IF n = Null THEN h ELSE [h EXCEPT ![n].right = c]

\* colours: an absent link counts as BLACK
get_color(h, n) == IF n = Null THEN "Black" ELSE h[n].color
is_red_color(h, n) == n # Null /\ h[n].color = "Red"
is_black_color(h, n) == n = Null \/ h[n].color = "Black"
set_color(h, n, c) == IF n = Null THEN h ELSE [h EXCEPT ![n].color = c]
set_red_color(h, n) == set_color(h, n, "Red")
set_black_color(h, n) == set_color(h, n, "Black")

\* NodePtr::sibling(parent, child): the other child of parent
sibling(h, p, c) == IF left_of(h, p) = c THEN right_of(h, p) ELSE left_of(h, p)

\* NodePtr::grand_parent / uncle: two-step parent walks
grand_parent(h, n) == parent_of(h, parent_of(h, n))
uncle(h, n) == sibling(h, grand_parent(h, n), parent_of(h, n))

\* leftmost / rightmost node of the subtree of n
RECURSIVE min_node(_, _)
min_node(h, n) ==
  IF n = Null \/ left_of(h, n) = Null THEN n ELSE min_node(h, left_of(h, n))

RECURSIVE max_node(_, _)
max_node(h, n) ==
  IF n = Null \/ right_of(h, n) = Null THEN n ELSE max_node(h, right_of(h, n))

\* ascend while coming from a right child (for next) / a left child (for prev)
RECURSIVE ascend_from_right(_, _)
ascend_from_right(h, n) ==
  LET p == parent_of(h, n) IN
  IF p = Null THEN Null
  ELSE IF left_of(h, p) = n THEN p
  ELSE ascend_from_right(h, p)

RECURSIVE ascend_from_left(_, _)
ascend_from_left(h, n) ==
  LET p == parent_of(h, n) IN
  IF p = Null THEN Null
  ELSE IF right_of(h, p) = n THEN p
  ELSE ascend_from_left(h, p)

\* NodePtr::next: the in-order successor
next(h, n) ==
  IF n = Null THEN Null
  ELSE IF right_of(h, n) # Null THEN min_node(h, right_of(h, n))
  ELSE ascend_from_right(h, n)

\* NodePtr::prev: the in-order predecessor
prev(h, n) ==
  IF n = Null THEN Null
  ELSE IF left_of(h, n) # Null THEN max_node(h, left_of(h, n))
  ELSE ascend_from_left(h, n)

\* the nodes whose fields NodePtr::next / NodePtr::prev read on the way
RECURSIVE min_node_reads(_, _)
min_node_reads(h, n) ==
  IF n = Null THEN {}
  ELSE {n} \cup min_node_reads(h, left_of(h, n))

RECURSIVE max_node_reads(_, _)
max_node_reads(h, n) ==
  IF n = Null THEN {}
  ELSE {n} \cup max_node_reads(h, right_of(h, n))

RECURSIVE ascend_from_right_reads(_, _)
ascend_from_right_reads(h, n) ==
  LET p == parent_of(h, n) IN
  IF p = Null THEN {n}
  ELSE IF left_of(h, p) = n THEN {n, p}
  ELSE {n, p} \cup ascend_from_right_reads(h, p)

RECURSIVE ascend_from_left_reads(_, _)
ascend_from_left_reads(h, n) ==
  LET p == parent_of(h, n) IN
  IF p = Null THEN {n}
  ELSE IF right_of(h, p) = n THEN {n, p}
  ELSE {n, p} \cup ascend_from_left_reads(h, p)

next_reads(h, n) ==
  IF n = Null THEN {}
  ELSE IF right_of(h, n) # Null THEN {n} \cup min_node_reads(h, right_of(h, n))
  ELSE ascend_from_right_reads(h, n)

prev_reads(h, n) ==
  IF n = Null THEN {}
  ELSE IF left_of(h, n) # Null THEN {n} \cup max_node_reads(h, left_of(h, n))
  ELSE ascend_from_left_reads(h, n)

\* NodePtr::deep_clone: copies the subtree of n in h into fresh cells of g,
\* below the parent p; the result is <<g afterwards, the copy of n>>
RECURSIVE deep_clone(_, _, _, _)
deep_clone(h, g, n, p) ==
  IF n = Null THEN <<g, Null>>
  ELSE
    LET node == h[n].key
        fresh(a) == set_parent(set_color(NodePtr_new(a, h[n].key, h[n].value), node, h[n].color),
                               node, p)
        both(l) ==
          LET r == deep_clone(h, l[1], right_of(h, n), node)
          IN <<set_right(set_left(r[1], node, l[2]), node, r[2]), node>>
    IN both(deep_clone(h, fresh(g), left_of(h, n), node))

\* ------------------------------------------------------------- tree layer
\* RBTree::new
EmptyHeap == [a \in Addr |-> FreeCell]

\* what one call has done besides changing the tree: the lines it wrote to
\* standard output, the depth of `node` at the start of every iteration of a
\* fix-up loop, the places where it used a null pointer as a node, <<root,
\* heap>> as delete left them once the successor was spliced in, and the
\* arguments of the call of delete_fixup that delete made (<<>> when none)
NoLog ==
  [stdout |-> <<>>, path |-> <<>>, absent |-> {}, splice |-> <<>>, fixup |-> <<>>]

new == [root |-> Null, len |-> 0, heap |-> EmptyHeap, log |-> NoLog]

\* the number of nodes from n up to the root (0 for the null pointer)
RECURSIVE depth(_, _)
depth(h, n) == IF n = Null THEN 0 ELSE 1 + depth(h, parent_of(h, n))

\* println!(line)
println(t, line) == [t EXCEPT !.log.stdout = Append(@, line)]

\* the call uses n as a node at the place `site`: noted when n is null
deref(t, n, site) ==
  IF n = Null THEN [t EXCEPT !.log.absent = @ \cup {site}] ELSE t

\* one more iteration of a fix-up loop starts, with node at depth d
enter_loop(t, d) == [t EXCEPT !.log.path = Append(@, d)]

\* RBTree::left_rotate
left_rotate_stale_parent(t, node) ==
  LET right == right_of(t.heap, node)
      rleft == left_of(t.heap, right)
      adopt(h) == IF rleft # Null THEN set_parent(h, rleft, node) ELSE h
      lift(h) == set_parent(h, right, parent_of(h, node))
      hook(h) ==
        IF node = t.root THEN h
        ELSE IF node = left_of(h, parent_of(h, node))
        THEN set_left(h, parent_of(h, node), right)
        ELSE set_right(h, parent_of(h, node), right)
      sink(h) == set_left(h, right, node)
      said(u) == deref(println(u, "---> rbtree left rotate"), right, "left_rotate")
  IN said([t EXCEPT !.root = IF node = t.root THEN right ELSE t.root,
                    !.heap = sink(hook(lift(adopt(set_right(t.heap, node, rleft)))))])

left_rotate(t, node) ==
  LET right == right_of(t.heap, node)
      rleft == left_of(t.heap, right)
      \* if !rleft.is_null() { rleft.set_parent(node) }
      adopt(h) == IF rleft # Null THEN set_parent(h, rleft, node) ELSE h
      \* right.set_parent(node.parent())
      lift(h) == set_parent(h, right, parent_of(h, node))
      \* right takes the place of node under node's parent (or as the root)
      hook(h) ==
        IF node = t.root THEN h
        ELSE IF node = left_of(h, parent_of(h, node))
        THEN set_left(h, parent_of(h, node), right)
        ELSE set_right(h, parent_of(h, node), right)
      \* right.set_left(node); node.set_parent(right)
      sink(h) == set_parent(set_left(h, right, node), node, right)
      \* println!("---> rbtree left rotate"); right.left() reads the pivot
      said(u) == deref(println(u, "---> rbtree left rotate"), right, "left_rotate")
  IN said([t EXCEPT !.root = IF node = t.root THEN right ELSE t.root,
                    !.heap = sink(hook(lift(adopt(set_right(t.heap, node, rleft)))))])

\* RBTree::right_rotate
right_rotate(t, node) ==
  LET left == left_of(t.heap, node)
      lright == right_of(t.heap, left)
      adopt(h) == IF lright # Null THEN set_parent(h, lright, node) ELSE h
      lift(h) == set_parent(h, left, parent_of(h, node))
      hook(h) ==
        IF node = t.root THEN h
        ELSE IF node = right_of(h, parent_of(h, node))
        THEN set_right(h, parent_of(h, node), left)
        ELSE set_left(h, parent_of(h, node), left)
      sink(h) == set_parent(set_right(h, left, node), node, left)
      \* println!("---> rbtree right rotate"); left.right() reads the pivot
      said(u) == deref(println(u, "---> rbtree right rotate"), left, "right_rotate")
  IN said([t EXCEPT !.root = IF node = t.root THEN left ELSE t.root,
                    !.heap = sink(hook(lift(adopt(set_left(t.heap, node, lright)))))])

\* insert_fixup, red uncle: parent and uncle become BLACK, the grandparent RED
recolor_red_uncle_keeps_uncle(h, parent, unc, gp) ==
  set_red_color(set_black_color(h, parent), gp)

recolor_red_uncle(h, parent, unc, gp) ==
  set_red_color(set_black_color(set_black_color(h, parent), unc), gp)

\* insert_fixup, line shape: the parent becomes BLACK, the grandparent RED
recolor_line_keeps_parent(h, parent, gp) == set_red_color(h, gp)

recolor_line(h, parent, gp) == set_red_color(set_black_color(h, parent), gp)

\* insert_fixup, after the loop: self.root.set_black_color()
blacken_root_skipped(t) == t

blacken_root(t) == [t EXCEPT !.heap = set_black_color(t.heap, t.root)]

\* RBTree::insert_fixup
RECURSIVE insert_fixup(_, _)

\* insert_fixup, red uncle: after the recolouring the loop goes on with
\* node = grand_parent
insert_fixup_red_uncle_stays(t, node, parent, unc, gp) ==
  insert_fixup([t EXCEPT !.heap = recolor_red_uncle(t.heap, parent, unc, gp)], node)

insert_fixup_red_uncle(t, node, parent, unc, gp) ==
  insert_fixup([t EXCEPT !.heap = recolor_red_uncle(t.heap, parent, unc, gp)], gp)

\* insert_fixup, BLACK or absent uncle: a bent line is straightened by a
\* rotation of the parent, then the parent becomes BLACK, the grandparent RED
\* and is rotated, and the loop ends
insert_fixup_rotate(t, node, parent, gp) ==
  LET h == t.heap
      zig == node = right_of(h, parent) /\ parent = left_of(h, gp)
      zag == ~zig /\ node = left_of(h, parent) /\ parent = right_of(h, gp)
      node1 == IF zig \/ zag THEN parent ELSE node
      \* parent = node.parent(); recolour; rotate the grandparent
      line(t1) ==
        LET rotate(u) ==
              IF node1 = left_of(u.heap, parent_of(u.heap, node1))
              THEN right_rotate(u, gp)
              ELSE left_rotate(u, gp)
        IN rotate([t1 EXCEPT !.heap =
                     recolor_line(t1.heap, parent_of(t1.heap, node1), gp)])
      \* grand_parent.left(), grand_parent.set_red_color() use the grandparent
      start(u) == deref(u, gp, "insert_fixup: grand_parent")
  IN line(IF zig THEN left_rotate(start(t), parent)
          ELSE IF zag THEN right_rotate(start(t), parent)
          ELSE start(t))

insert_fixup(t, node) ==
  IF node = t.root
  THEN blacken_root(t)
  ELSE
    LET h == t.heap
        parent == parent_of(h, node)
        body(u) ==
          IF is_black_color(h, parent)
          THEN blacken_root(u)
          ELSE
            LET unc == uncle(h, node)
                gp == grand_parent(h, node)
            IN
            IF unc # Null /\ is_red_color(h, unc)
            THEN insert_fixup_red_uncle(u, node, parent, unc, gp)
            ELSE blacken_root(insert_fixup_rotate(u, node, parent, gp))
    IN body(enter_loop(t, depth(h, node)))

\* the descent of RBTree::insert: <<y, x>> where x is the node holding k
\* (Null when k is not found) and y the last node visited
RECURSIVE insert_descend(_, _, _, _)
insert_descend(h, y, x, k) ==
  IF x = Null THEN <<y, Null>>
  ELSE IF k < h[x].key THEN insert_descend(h, x, left_of(h, x), k)
  ELSE IF k = h[x].key THEN <<x, x>>
  ELSE insert_descend(h, x, right_of(h, x), k)

\* RBTree::insert, Ordering::Equal: the value is replaced, the old one returned
insert_existing_returns_new(t, x, v) ==
  [t |-> [t EXCEPT !.heap[x].value = v], ret |-> v]

insert_existing(t, x, v) ==
  [t |-> [t EXCEPT !.heap[x].value = v], ret |-> t.heap[x].value]

\* RBTree::insert: the new node becomes the left or the right child of y
insert_link_flipped(h, y, node) ==
  IF h[node].key > h[y].key THEN set_left(h, y, node) ELSE set_right(h, y, node)

insert_link(h, y, node) ==
  IF h[node].key < h[y].key THEN set_left(h, y, node) ELSE set_right(h, y, node)

\* RBTree::insert: [t |-> the tree afterwards, ret |-> the previous value]
insert(t, k, v) ==
  LET d == insert_descend(t.heap, Null, t.root, k)
      y == d[1]
      x == d[2]
  IN
  IF x # Null
  THEN insert_existing(t, x, v)
  ELSE
    LET node == k
        \* node.set_parent(y); the node becomes the root or a child of y
        link(h) == IF y = Null THEN h ELSE insert_link(h, y, node)
        placed == set_red_color(link(set_parent(NodePtr_new(t.heap, k, v), node, y)), node)
    IN [t |-> insert_fixup([root |-> IF y = Null THEN node ELSE t.root,
                            len |-> t.len + 1,
                            heap |-> placed,
                            log |-> t.log],
                           node),
        ret |-> None]

\* RBTree::find_node
RECURSIVE find_from_reversed(_, _, _)
find_from_reversed(h, current, k) ==
  IF current = Null THEN Null
  ELSE IF k < h[current].key THEN find_from_reversed(h, h[current].right, k)
  ELSE IF k > h[current].key THEN find_from_reversed(h, h[current].left, k)
  ELSE current

RECURSIVE find_from(_, _, _)
find_from(h, current, k) ==
  IF current = Null THEN Null
  ELSE IF k < h[current].key THEN find_from(h, h[current].left, k)
  ELSE IF k > h[current].key THEN find_from(h, h[current].right, k)
  ELSE current

find_node_or_root(t, k) ==
  LET node == find_from(t.heap, t.root, k) IN
  IF node = Null THEN t.root ELSE node

find_node(t, k) == find_from(t.heap, t.root, k)

\* RBTree::find_less_equal, the loop: less is the last node whose key was
\* smaller than k; the result is <<node, exact>>
RECURSIVE find_le_from_forgets_less(_, _, _, _)
find_le_from_forgets_less(h, less, current, k) ==
  IF current = Null THEN <<less, FALSE>>
  ELSE IF k < h[current].key THEN find_le_from_forgets_less(h, less, h[current].left, k)
  ELSE IF k > h[current].key THEN find_le_from_forgets_less(h, less, h[current].right, k)
  ELSE <<current, TRUE>>

RECURSIVE find_le_from(_, _, _, _)
find_le_from(h, less, current, k) ==
  IF current = Null THEN <<less, FALSE>>
  ELSE IF k < h[current].key THEN find_le_from(h, less, h[current].left, k)
  ELSE IF k > h[current].key THEN find_le_from(h, current, h[current].right, k)
  ELSE <<current, TRUE>>

find_less_equal(t, k) ==
  LET r == find_le_from(t.heap, Null, t.root, k)
  IN [node |-> r[1], exact |-> r[2]]

\* RBTree::get / contains_key / len / is_empty
get(t, k) ==
  LET node == find_node(t, k) IN
  IF node = Null THEN None ELSE t.heap[node].value

contains_key(t, k) == find_node(t, k) # Null

len_of(t) == t.len

is_empty(t) == t.root = Null

\* Index for RBTree, tree[&k]: self.get(index).expect("no entry found for
\* key"); panic tells whether expect found None, ret is the value otherwise
index_or_default(t, k) == [panic |-> FALSE, ret |-> get(t, k)]

index(t, k) ==
  LET v == get(t, k) IN [panic |-> v = None, ret |-> v]

\* RBTree::first_child / last_child
RECURSIVE descend_left(_, _)
descend_left(h, temp) ==
  IF left_of(h, temp) = Null THEN temp ELSE descend_left(h, left_of(h, temp))

descend_right_one_step(h, temp) ==
  IF right_of(h, temp) = Null THEN temp ELSE right_of(h, temp)

RECURSIVE descend_right(_, _)
descend_right(h, temp) ==
  IF right_of(h, temp) = Null THEN temp ELSE descend_right(h, right_of(h, temp))

first_child(t) == IF t.root = Null THEN Null ELSE descend_left(t.heap, t.root)

last_child(t) == IF t.root = Null THEN Null ELSE descend_right(t.heap, t.root)

\* RBTree::get_first / get_last: the pair <<key, value>>, or NoPair
get_first(t) ==
  LET first == first_child(t) IN
  IF first = Null THEN NoPair ELSE <<t.heap[first].key, t.heap[first].value>>

get_last(t) ==
  LET last == last_child(t) IN
  IF last = Null THEN NoPair ELSE <<t.heap[last].key, t.heap[last].value>>

\* RBTree::delete_fixup
RECURSIVE delete_fixup(_, _, _)

\* delete_fixup, the sibling is RED: the sibling becomes BLACK, the parent
\* RED and is rotated towards node
delete_fixup_red_sibling(t, parent, sib, is_right_sibling) ==
  LET rotate(u) == IF is_right_sibling THEN left_rotate(u, parent)
                   ELSE right_rotate(u, parent)
  IN rotate([t EXCEPT !.heap = set_red_color(set_black_color(t.heap, sib), parent)])

\* delete_fixup, the far child of the sibling is BLACK and the near one RED:
\* the near child becomes BLACK, the sibling RED and is rotated away from node
delete_fixup_near_red(t, sib, is_right_sibling) ==
  LET near == IF is_right_sibling THEN left_of(t.heap, sib) ELSE right_of(t.heap, sib)
      \* sibleft.set_black_color() / sibright.set_black_color()
      recolour(u) ==
        [u EXCEPT !.heap = set_red_color(set_black_color(u.heap, near), sib)]
      rotate(u) == IF is_right_sibling THEN right_rotate(u, sib) ELSE left_rotate(u, sib)
  IN rotate(recolour(deref(t, near, "delete_fixup: near child")))

\* delete_fixup, the far child of the sibling is RED: the sibling takes the
\* parent's colour, the parent and the far child become BLACK, the parent is
\* rotated towards node; node = self.root ends the loop and the root is
\* coloured BLACK
delete_fixup_far_red(t, parent, sib, is_right_sibling) ==
  LET far(h) == IF is_right_sibling THEN right_of(h, sib) ELSE left_of(h, sib)
      blacken_far(h) == set_black_color(h, far(h))
      recolour(h) ==
        blacken_far(set_black_color(set_color(h, sib, get_color(h, parent)), parent))
      rotate(u) == IF is_right_sibling THEN left_rotate(u, parent)
                   ELSE right_rotate(u, parent)
      \* node = self.root; break; node.set_black_color()
      done(u) ==
        deref([u EXCEPT !.heap = set_black_color(u.heap, u.root)], u.root,
              "delete_fixup: node")
      \* sibling.set_color(..), sibling.right().set_black_color()
      start(u) ==
        deref(deref(u, sib, "delete_fixup: sibling"), far(u.heap),
              "delete_fixup: far child")
  IN done(rotate([start(t) EXCEPT !.heap = recolour(t.heap)]))

\* the sibling held by parent on the side away from node
refreshed_sibling(t, parent, is_right_sibling) ==
  IF is_right_sibling THEN right_of(t.heap, parent) ELSE left_of(t.heap, parent)

\* delete_fixup, one iteration with a BLACK sibling sib (the one found at
\* the start, or the one that the red-sibling rotation put in its place)
delete_fixup_black_sibling(t, parent, sib, is_right_sibling) ==
  LET h == t.heap
      sibleft == left_of(h, sib)
      sibright == right_of(h, sib)
      far_black == IF is_right_sibling THEN is_black_color(h, sibright)
                   ELSE is_black_color(h, sibleft)
      finish(u) ==
        delete_fixup_far_red(
          u, parent,
          IF far_black THEN refreshed_sibling(u, parent, is_right_sibling) ELSE sib,
          is_right_sibling)
      \* sibling.left(), sibling.right() read the links of the sibling
      start(u) == deref(u, sib, "delete_fixup: sibling")
  IN
  IF is_black_color(h, sibleft) /\ is_black_color(h, sibright)
  THEN delete_fixup([start(t) EXCEPT !.heap = set_red_color(h, sib)],
                    parent, parent_of(h, parent))
  ELSE finish(IF far_black THEN delete_fixup_near_red(start(t), sib, is_right_sibling)
              ELSE start(t))

delete_fixup(t, node, parent) ==
  IF ~(node # t.root /\ is_black_color(t.heap, node))
  THEN \* node.set_black_color()
       deref([t EXCEPT !.heap = set_black_color(t.heap, node)], node,
             "delete_fixup: node")
  ELSE
    LET sib == sibling(t.heap, parent, node)
        is_right_sibling == left_of(t.heap, parent) = node
        red == is_red_color(t.heap, sib)
        iterate(u) ==
          delete_fixup_black_sibling(
            u, parent,
            IF red THEN refreshed_sibling(u, parent, is_right_sibling) ELSE sib,
            is_right_sibling)
        \* NodePtr::sibling(parent, node), parent.left() read the parent
        start(u) ==
          deref(enter_loop(u, depth(u.heap, parent) + 1), parent, "delete_fixup: parent")
    IN iterate(IF red THEN delete_fixup_red_sibling(start(t), parent, sib, is_right_sibling)
               ELSE start(t))

\* RBTree::delete, node has two children: replace (its successor) is spliced
\* into its place; h is the heap once node's parent (or the root) points to
\* replace, and child, parent0, color were read from replace
delete_spliced(t, h, node, replace, child, parent0) ==
  LET \* replace leaves its old place and takes over node's right subtree
      attach_right(a) ==
        set_parent(set_right(a, replace, right_of(a, node)), right_of(a, node), replace)
      detach(a) ==
        IF parent0 = node THEN a
        ELSE attach_right(
               set_left(IF child # Null THEN set_parent(a, child, parent0) ELSE a,
                        parent0, child))
      \* replace takes node's parent, colour and left subtree
      attach_left(a) ==
        set_parent(set_left(a, replace, left_of(a, node)), left_of(a, node), replace)
      take(a) ==
        attach_left(
          set_color(set_parent(a, replace, parent_of(a, node)), replace, get_color(a, node)))
  IN [t EXCEPT !.root = IF parent_of(t.heap, node) = Null THEN replace ELSE t.root,
               !.len = t.len - 1,
               !.heap = take(detach(h))]

\* RBTree::delete, node has two children: the splice, then delete_fixup when
\* the colour read from replace was BLACK, then the node is freed
delete_splice_by_node_colour(t, h, node, replace, child, parent0, color) ==
  LET pair == <<t.heap[node].key, t.heap[node].value>>
      parent == IF parent0 = node THEN replace ELSE parent0
      fix(u) ==
        IF is_black_color(t.heap, node)
        THEN delete_fixup([u EXCEPT !.log.fixup = <<child, parent>>], child, parent)
        ELSE u
      free(u) == [u EXCEPT !.heap = Box_from_raw(u.heap, node)]
      seen(u) == [u EXCEPT !.log.splice = <<u.root, u.heap>>]
  IN [t |-> free(fix(seen(delete_spliced(t, h, node, replace, child, parent0)))),
      ret |-> pair]

delete_splice(t, h, node, replace, child, parent0, color) ==
  LET pair == <<t.heap[node].key, t.heap[node].value>>
      parent == IF parent0 = node THEN replace ELSE parent0
      \* if color == Color::Black { self.delete_fixup(child, parent) }
      fix(u) ==
        IF color = "Black"
        THEN delete_fixup([u EXCEPT !.log.fixup = <<child, parent>>], child, parent)
        ELSE u
      free(u) == [u EXCEPT !.heap = Box_from_raw(u.heap, node)]
      seen(u) == [u EXCEPT !.log.splice = <<u.root, u.heap>>]
  IN [t |-> free(fix(seen(delete_spliced(t, h, node, replace, child, parent0)))),
      ret |-> pair]

delete_two_children(t, node, replace) ==
  LET np == parent_of(t.heap, node)
      read(h) ==
        delete_splice(t, h, node, replace,
                      right_of(h, replace), parent_of(h, replace), get_color(h, replace))
  IN read(IF np = Null THEN t.heap
          ELSE IF left_of(t.heap, np) = node THEN set_left(t.heap, np, replace)
          ELSE set_right(t.heap, np, replace))

\* RBTree::delete, node has at most one child: child takes its place
delete_one_child(t, node, child) ==
  LET pair == <<t.heap[node].key, t.heap[node].value>>
      np == parent_of(t.heap, node)
      hook(h) ==
        IF np = Null THEN h
        ELSE IF left_of(h, np) = node THEN set_left(h, np, child)
        ELSE set_right(h, np, child)
      fix(u) ==
        IF is_black_color(u.heap, node)
        THEN delete_fixup([u EXCEPT !.log.fixup = <<child, parent_of(u.heap, node)>>],
                          child, parent_of(u.heap, node))
        ELSE u
      free(u) == [u EXCEPT !.heap = Box_from_raw(u.heap, node)]
  IN [t |-> free(fix([t EXCEPT !.root = IF np = Null THEN child ELSE t.root,
                               !.len = t.len - 1,
                               !.heap = hook(IF child # Null
                                             THEN set_parent(t.heap, child, np)
                                             ELSE t.heap)])),
      ret |-> pair]

\* RBTree::delete: [t |-> the tree afterwards, ret |-> <<key, value>> of node]
delete_keeps_len(t, node) ==
  LET keep(d) == [d EXCEPT !.t.len = t.len]
  IN keep(IF left_of(t.heap, node) # Null /\ right_of(t.heap, node) # Null
          THEN delete_two_children(t, node, next(t.heap, node))
          ELSE delete_one_child(t, node,
                                IF left_of(t.heap, node) # Null THEN left_of(t.heap, node)
                                ELSE right_of(t.heap, node)))

delete(t, node) ==
  IF left_of(t.heap, node) # Null /\ right_of(t.heap, node) # Null
  THEN delete_two_children(t, node, next(t.heap, node))
  ELSE delete_one_child(t, node,
                        IF left_of(t.heap, node) # Null THEN left_of(t.heap, node)
                        ELSE right_of(t.heap, node))

\* RBTree::remove: ret is the removed value, or None
remove_returns_key(t, k) ==
  LET node == find_node(t, k) IN
  IF node = Null THEN [t |-> t, ret |-> None]
  ELSE LET d == delete(t, node) IN [t |-> d.t, ret |-> d.ret[1]]

remove(t, k) ==
  LET node == find_node(t, k) IN
  IF node = Null THEN [t |-> t, ret |-> None]
  ELSE LET d == delete(t, node) IN [t |-> d.t, ret |-> d.ret[2]]

\* RBTree::pop_first / pop_last: ret is the removed pair, or NoPair
pop_first(t) ==
  LET first == first_child(t) IN
  IF first = Null THEN [t |-> t, ret |-> NoPair] ELSE delete(t, first)

pop_last(t) ==
  LET last == last_child(t) IN
  IF last = Null THEN [t |-> t, ret |-> NoPair] ELSE delete(t, last)

\* RBTree::clear_recurse: the heap once the subtree of current is freed
RECURSIVE clear_recurse(_, _)
clear_recurse(h, current) ==
  IF current = Null THEN h
  ELSE LET a == clear_recurse(h, left_of(h, current))
           b == clear_recurse(a, right_of(a, current))
       IN Box_from_raw(b, current)

\* RBTree::clear
clear(t) ==
  LET root0 == t.root
  IN [t EXCEPT !.root = Null, !.heap = clear_recurse(t.heap, root0)]

\* Extend for RBTree: for (k, v) in iter { self.insert(k, v); }
RECURSIVE extend_keeps_existing(_, _)
extend_keeps_existing(t, seq) ==
  IF seq = <<>> THEN t
  ELSE extend_keeps_existing(
         IF contains_key(t, Head(seq)[1]) THEN t
         ELSE insert(t, Head(seq)[1], Head(seq)[2]).t,
         Tail(seq))

RECURSIVE extend(_, _)
extend(t, seq) ==
  IF seq = <<>> THEN t
  ELSE extend(insert(t, Head(seq)[1], Head(seq)[2]).t, Tail(seq))

\* FromIterator for RBTree: a new tree, extended by the sequence
from_iter(seq) == extend(new, seq)

\* RBTree::get_mut followed by an assignment through the reference
get_mut_set(t, k, v) ==
  LET node == find_node(t, k) IN
  IF node = Null THEN t ELSE [t EXCEPT !.heap[node].value = v]

\* ----------------------------------------------------------- cursors
\* RBTree::iter / iter_mut: the cursor [kind, head, tail, len]
iter_from_root(t) ==
  [kind |-> "Iter", head |-> t.root, tail |-> last_child(t), len |-> t.len]

iter(t) ==
  [kind |-> "Iter", head |-> first_child(t), tail |-> last_child(t), len |-> t.len]

iter_mut(t) ==
  [kind |-> "IterMut", head |-> first_child(t), tail |-> last_child(t), len |-> t.len]

\* Iter::next: [c |-> the cursor afterwards, ret |-> the pair, or NoPair]
Iter_next(h, c) ==
  IF c.len = 0 THEN [c |-> c, ret |-> NoPair]
  ELSE IF c.head = Null THEN [c |-> c, ret |-> NoPair]
  ELSE [c |-> [c EXCEPT !.head = next(h, c.head), !.len = c.len - 1],
        ret |-> <<h[c.head].key, h[c.head].value>>]

\* Iter::next_back
Iter_next_back(h, c) ==
  IF c.len = 0 THEN [c |-> c, ret |-> NoPair]
  ELSE IF c.tail = c.head THEN [c |-> c, ret |-> NoPair]
  ELSE [c |-> [c EXCEPT !.tail = prev(h, c.tail), !.len = c.len - 1],
        ret |-> <<h[c.tail].key, h[c.tail].value>>]

\* IterMut::next
IterMut_next(h, c) ==
  IF c.len = 0 THEN [c |-> c, ret |-> NoPair]
  ELSE IF c.head = Null THEN [c |-> c, ret |-> NoPair]
  ELSE [c |-> [c EXCEPT !.head = next(h, c.head), !.len = c.len - 1],
        ret |-> <<h[c.head].key, h[c.head].value>>]

\* IterMut::next_back
IterMut_next_back(h, c) ==
  IF c.len = 0 THEN [c |-> c, ret |-> NoPair]
  ELSE IF c.tail = c.head THEN [c |-> c, ret |-> NoPair]
  ELSE [c |-> [c EXCEPT !.tail = prev(h, c.tail), !.len = c.len - 1],
        ret |-> <<h[c.tail].key, h[c.tail].value>>]

\* next_back passes both of its tests with a null tail: (*self.tail.0) is
\* then a read through a null pointer
next_back_reads_null(c) == c.len # 0 /\ c.tail # c.head /\ c.tail = Null

\* RBTree::fast_clear
fast_clear(t) == [t EXCEPT !.root = Null]

\* IntoIterator::into_iter: the cursor [kind, head, tail, len, freed, stale].
\* The cursor owns the nodes from here on.  freed holds the nodes it has
\* given back to the allocator; their cells keep what they held.  stale
\* holds the freed nodes that the last call read or freed again.
into_iter(t) ==
  [kind |-> "IntoIter",
   head |-> IF t.root = Null THEN Null ELSE first_child(t),
   tail |-> IF t.root = Null THEN Null ELSE last_child(t),
   len |-> t.len, freed |-> {}, stale |-> {}]

\* IntoIter::next: self.head.next() is computed, then the node at head is
\* freed and its pair returned
IntoIter_next(h, c) ==
  IF c.len = 0 THEN [c |-> [c EXCEPT !.stale = {}], ret |-> NoPair]
  ELSE IF c.head = Null THEN [c |-> [c EXCEPT !.stale = {}], ret |-> NoPair]
  ELSE [c |-> [c EXCEPT !.head = next(h, c.head),
                        !.len = c.len - 1,
                        !.freed = c.freed \cup {c.head},
                        !.stale = next_reads(h, c.head) \cap c.freed],
        ret |-> <<h[c.head].key, h[c.head].value>>]

\* IntoIter::next_back
IntoIter_next_back(h, c) ==
  IF c.len = 0 THEN [c |-> [c EXCEPT !.stale = {}], ret |-> NoPair]
  ELSE IF c.tail = Null THEN [c |-> [c EXCEPT !.stale = {}], ret |-> NoPair]
  ELSE [c |-> [c EXCEPT !.tail = prev(h, c.tail),
                        !.len = c.len - 1,
                        !.freed = c.freed \cup {c.tail},
                        !.stale = prev_reads(h, c.tail) \cap c.freed],
        ret |-> <<h[c.tail].key, h[c.tail].value>>]

\* Drop for IntoIter: for (_, _) in self {}.  [c |-> the cursor afterwards,
\* items |-> what the loop took out, stale |-> the freed nodes it read]
RECURSIVE IntoIter_drop(_, _, _, _)
IntoIter_drop(h, c, items, stale) ==
  LET r == IntoIter_next(h, c) IN
  IF r.ret = NoPair
  THEN [c |-> [r.c EXCEPT !.kind = "dropped", !.stale = stale], items |-> items]
  ELSE IntoIter_drop(h, r.c, Append(items, r.ret), stale \cup r.c.stale)

\* Iter::size_hint / IterMut::size_hint: <<lower, upper>>
size_hint(c) == <<c.len, c.len>>

\* ------------------------------------------------------ clone, equality
\* Clone for RBTree: the copy lives in cells of its own
clone_without_len(t) ==
  LET c == deep_clone(t.heap, EmptyHeap, t.root, Null)
  IN [root |-> c[2], len |-> new.len, heap |-> c[1], log |-> NoLog]

clone(t) ==
  LET c == deep_clone(t.heap, EmptyHeap, t.root, Null)
  IN [root |-> c[2], len |-> t.len, heap |-> c[1], log |-> NoLog]

\* PartialEq for RBTree, self.iter().all(..): the walk of the cursor c over
\* s, looking every entry up in o
RECURSIVE all_from(_, _, _)
all_from(s, c, o) ==
  LET r == Iter_next(s.heap, c) IN
  IF r.ret = NoPair THEN TRUE
  ELSE IF get(o, r.ret[1]) # r.ret[2] THEN FALSE
  ELSE all_from(s, r.c, o)

\* PartialEq::eq
eq(s, o) ==
  IF len_of(s) # len_of(o) THEN FALSE ELSE all_from(s, iter(s), o)

\* ------------------------------------------------------------------ state
\* root, len: the fields of the RBTree; heap: the nodes it points into
\* op, ret: the last public method called and what it returned
\* ref, refRet: a reference map (key -> value, None when the key is absent)
\* driven by the same calls, and what the reference returned
\* cur: the cursor that borrows the tree (NoCursor when there is none)
\* out: what the cursor has yielded so far, <<method, key, value>> each
\* other: a second RBTree, [root, len, heap], with cells of its own
\* log: what the last call did on its way (NoLog where it is not watched)
VARIABLES root, len, heap, op, ret, ref, refRet, cur, out, other, log

\* the gRPC helper (grpc_helpers), one entry per ServerHandle h:
\* handle[h]: where the caller is with h ("none" before setup, "spawned"
\*   at the recv of line 78, "received" at line 79, "held" once setup has
\*   returned it, "sent" inside drop after line 88, "dropped", "panicked")
\* closure[h]: the drop_closure argument setup was called with for h,
\*   "None" or "Some"
\* drop_closure[h]: the field of the handle, "None" or "Some"
\* runs[h]: how many times the drop closure of h was called
\* thread[h]: where the service thread is ("unspawned", "start" at line 68,
\*   "send" at 69, "poll" at 71, "sleep" at 74, "returned", "panicked")
\* server[h]: the grpcio server moved into the thread
\* start_ch[h], stop_ch[h]: the two mpsc channels (messages sent and
\*   received, whether the sender and the receiver are alive; neither is
\*   before the channel is created)
VARIABLES handle, closure, drop_closure, runs, thread, server, start_ch, stop_ch

grpc ==
  <<handle, closure, drop_closure, runs, thread, server, start_ch, stop_ch>>

tree_vars == <<root, len, heap, op, ret, ref, refRet, cur, out, other, log>>

vars == <<root, len, heap, op, ret, ref, refRet, cur, out, other, log, grpc>>

NoCursor == [kind |-> "none", head |-> Null, tail |-> Null, len |-> 0]

\* the ServerHandles a program sets up
MaxHandles == 2
Handles == 1 .. MaxHandles

Tree == [root |-> root, len |-> len, heap |-> heap, log |-> NoLog]
TreeNext == [root |-> root', len |-> len', heap |-> heap', log |-> NoLog]

\* the reference map
RefKeys(m) == {k \in Addr : m[k] # None}
RefMin(m) == CHOOSE k \in RefKeys(m) : \A j \in RefKeys(m) : k <= j
RefMax(m) == CHOOSE k \in RefKeys(m) : \A j \in RefKeys(m) : k >= j

Init ==
  /\ root = new.root
  /\ len = new.len
  /\ heap = new.heap
  /\ op = "new"
  /\ ret = None
  /\ ref = [k \in Addr |-> None]
  /\ refRet = None
  /\ cur = NoCursor
  /\ out = <<>>
  /\ other = new
  /\ log = NoLog
  /\ handle = [h \in Handles |-> "none"]
  /\ closure = [h \in Handles |-> "None"]
  /\ drop_closure = [h \in Handles |-> "None"]
  /\ runs = [h \in Handles |-> 0]
  /\ thread = [h \in Handles |-> "unspawned"]
  /\ server = [h \in Handles |-> "none"]
  /\ start_ch = [h \in Handles |->
                  [sent |-> 0, recvd |-> 0, tx |-> FALSE, rx |-> FALSE]]
  /\ stop_ch = [h \in Handles |->
                 [sent |-> 0, recvd |-> 0, tx |-> FALSE, rx |-> FALSE]]

\* a method that takes &mut self runs only while no cursor borrows the tree
Unborrowed == cur = NoCursor /\ UNCHANGED <<cur, out>>

\* a method called on this tree has no access to the other one
OnThisTree == Unborrowed /\ UNCHANGED <<other, grpc>> /\ log' = NoLog

\* the same, with the log of the call r kept
Watched(r) == Unborrowed /\ UNCHANGED <<other, grpc>> /\ log' = r.t.log

SetTree(t) ==
  /\ root' = t.root
  /\ len' = t.len
  /\ heap' = t.heap

\* a call returned r = [t |-> the tree it leaves, ret |-> its result]
Return(r) == SetTree(r.t) /\ ret' = r.ret

\* m.insert(k, v)
InsertCall(k, v) ==
  /\ Return(insert(Tree, k, v))
  /\ op' = "insert"
  /\ refRet' = ref[k]
  /\ ref' = [ref EXCEPT ![k] = v]

\* the tree is not taken beyond a len of MaxLen
Insert(k, v) ==
  /\ OnThisTree
  /\ contains_key(Tree, k) \/ len < MaxLen
  /\ InsertCall(k, v)

\* m.remove(&k)
RemoveCall(k) ==
  /\ Return(remove(Tree, k))
  /\ op' = "remove"
  /\ refRet' = ref[k]
  /\ ref' = [ref EXCEPT ![k] = None]

Remove(k) == OnThisTree /\ RemoveCall(k)

\* m.pop_first()
PopFirstCall ==
  /\ Return(pop_first(Tree))
  /\ op' = "pop_first"
  /\ IF RefKeys(ref) = {}
     THEN refRet' = NoPair /\ ref' = ref
     ELSE /\ refRet' = <<RefMin(ref), ref[RefMin(ref)]>>
          /\ ref' = [ref EXCEPT ![RefMin(ref)] = None]

PopFirst == OnThisTree /\ PopFirstCall

\* m.pop_last()
PopLastCall ==
  /\ Return(pop_last(Tree))
  /\ op' = "pop_last"
  /\ IF RefKeys(ref) = {}
     THEN refRet' = NoPair /\ ref' = ref
     ELSE /\ refRet' = <<RefMax(ref), ref[RefMax(ref)]>>
          /\ ref' = [ref EXCEPT ![RefMax(ref)] = None]

PopLast == OnThisTree /\ PopLastCall

\* m.clear()
Clear ==
  /\ OnThisTree
  /\ SetTree(clear(Tree))
  /\ op' = "clear"
  /\ ret' = None
  /\ refRet' = None
  /\ ref' = [k \in Addr |-> None]

\* m.iter() / m.iter_mut()
NewIter ==
  /\ cur = NoCursor
  /\ cur' = iter(Tree)
  /\ out' = <<>>
  /\ op' = "iter"
  /\ ret' = None
  /\ UNCHANGED <<root, len, heap, ref, refRet, other, log, grpc>>

NewIterMut ==
  /\ cur = NoCursor
  /\ cur' = iter_mut(Tree)
  /\ out' = <<>>
  /\ op' = "iter_mut"
  /\ ret' = None
  /\ UNCHANGED <<root, len, heap, ref, refRet, other, log, grpc>>

\* a call of next / next_back returned r = [c |-> the cursor, ret |-> the item]
Yield(r, method) ==
  /\ cur' = r.c
  /\ ret' = r.ret
  /\ out' = IF r.ret = NoPair THEN out ELSE Append(out, <<method, r.ret[1], r.ret[2]>>)
  /\ op' = method
  /\ UNCHANGED <<root, len, heap, ref, refRet, other, log, grpc>>

\* next_back reads through a null tail: undefined behaviour.  The call
\* aborts, or it returns references to whatever lies there; nothing is
\* known of the cursor afterwards
ReadNull ==
  /\ cur' = [cur EXCEPT !.kind = "undefined"]
  /\ \/ op' = "abort" /\ ret' = NoPair /\ out' = out
     \/ \E k \in IterKeys \cup {None} :
          /\ op' = "next_back"
          /\ ret' = <<k, k>>
          /\ out' = Append(out, <<"next_back", k, k>>)
  /\ UNCHANGED <<root, len, heap, ref, refRet, other, log, grpc>>

\* it.next() / it.next_back() on the cursor of m.iter()
IterNext ==
  /\ cur.kind = "Iter"
  /\ Yield(Iter_next(heap, cur), "next")

IterNextBack ==
  /\ cur.kind = "Iter"
  /\ IF next_back_reads_null(cur) THEN ReadNull
     ELSE Yield(Iter_next_back(heap, cur), "next_back")

\* it.next() / it.next_back() on the cursor of m.iter_mut()
IterMutNext ==
  /\ cur.kind = "IterMut"
  /\ Yield(IterMut_next(heap, cur), "next")

IterMutNextBack ==
  /\ cur.kind = "IterMut"
  /\ IF next_back_reads_null(cur) THEN ReadNull
     ELSE Yield(IterMut_next_back(heap, cur), "next_back")

\* The calls of tests::test_lots_of_insertions and test_iterate: every key is
\* inserted with itself as value (m.insert(i, i)).  No branch of insert,
\* delete or the fixups reads a value, so the shapes reached are those of
\* arbitrary values.
Next ==
  \/ \E k \in Keys : Insert(k, k)
  \/ \E k \in Keys : Remove(k)
  \/ PopFirst
  \/ PopLast
  \/ Clear

Spec == Init /\ [][Next]_vars

\* The calls of test_insert_delete_batch: only insert and remove, with
\* arbitrary values
NextMap ==
  \/ \E k \in MapKeys, v \in Vals : Insert(k, v)
  \/ \E k \in MapKeys : Remove(k)

SpecMap == Init /\ [][NextMap]_vars

\* The calls on two trees side by side.  The caller drops what a call
\* returns; op tells which of the two trees the last call was made on.
\* a call on this tree left it as t
OnThis(t) ==
  /\ OnThisTree
  /\ SetTree(t)
  /\ op' = "this"
  /\ ret' = None
  /\ UNCHANGED <<ref, refRet>>

\* m.insert(k, v) / m.remove(&k) / m.clear() / *m.get_mut(&k).unwrap() = v
ThisInsert(k, v) ==
  /\ contains_key(Tree, k) \/ len < MaxPairLen
  /\ OnThis(insert(Tree, k, v).t)

ThisRemove(k) == OnThis(remove(Tree, k).t)

ThisClear == OnThis(clear(Tree))

ThisSetValue(k, v) ==
  /\ contains_key(Tree, k)
  /\ OnThis(get_mut_set(Tree, k, v))

\* other = m.clone()
Clone ==
  /\ Unborrowed
  /\ other' = clone(Tree)
  /\ op' = "clone"
  /\ ret' = None
  /\ UNCHANGED <<root, len, heap, ref, refRet, log, grpc>>

\* a call on the other tree left it as t
OnOther(t) ==
  /\ Unborrowed
  /\ other' = [t EXCEPT !.log = NoLog]
  /\ op' = "other"
  /\ ret' = None
  /\ UNCHANGED <<root, len, heap, ref, refRet, log, grpc>>

\* other.insert(k, v) / other.remove(&k) / other.clear() /
\* *other.get_mut(&k).unwrap() = v
OtherInsert(k, v) ==
  /\ contains_key(other, k) \/ other.len < MaxPairLen
  /\ OnOther(insert(other, k, v).t)

OtherRemove(k) == OnOther(remove(other, k).t)

OtherClear == OnOther(clear(other))

OtherSetValue(k, v) ==
  /\ contains_key(other, k)
  /\ OnOther(get_mut_set(other, k, v))

\* Two trees, each changed by insert, remove, clear and assignments through
\* get_mut, and the second one replaced by a clone of the first
NextPair ==
  \/ \E k \in PairKeys, v \in Vals : ThisInsert(k, v)
  \/ \E k \in PairKeys : ThisRemove(k)
  \/ ThisClear
  \/ \E k \in PairKeys, v \in Vals : ThisSetValue(k, v)
  \/ Clone
  \/ \E k \in PairKeys, v \in Vals : OtherInsert(k, v)
  \/ \E k \in PairKeys : OtherRemove(k)
  \/ OtherClear
  \/ \E k \in PairKeys, v \in Vals : OtherSetValue(k, v)

SpecPair == Init /\ [][NextPair]_vars

\* Trees over the keys 1..MaxIterKey, built by every method that changes
\* the tree, and one cursor over them
NextIter ==
  \/ \E k \in IterKeys : Insert(k, k)
  \/ \E k \in IterKeys : Remove(k)
  \/ PopFirst
  \/ PopLast
  \/ Clear
  \/ NewIter
  \/ NewIterMut
  \/ IterNext
  \/ IterNextBack
  \/ IterMutNext
  \/ IterMutNextBack

SpecIter == Init /\ [][NextIter]_vars

\* let it = m.into_iter(): m is moved into the call, which leaves its root
\* null (fast_clear) before m is dropped
NewIntoIter ==
  /\ cur = NoCursor
  /\ cur' = into_iter(Tree)
  /\ SetTree(fast_clear(Tree))
  /\ out' = <<>>
  /\ op' = "into_iter"
  /\ ret' = None
  /\ UNCHANGED <<ref, refRet, other, log, grpc>>

\* a call on the cursor read a node that was freed, or freed it again:
\* undefined behaviour.  The call goes on with what the cell held when it
\* was freed (Yield), or it aborts, or it returns whatever lies there;
\* nothing is known of the cursor afterwards
UseAfterFree(r, method) ==
  /\ cur' = [r.c EXCEPT !.kind = "undefined"]
  /\ \/ op' = "abort" /\ ret' = NoPair /\ out' = out
     \/ \E k \in IterKeys \cup {None} :
          /\ op' = method
          /\ ret' = <<k, k>>
          /\ out' = Append(out, <<method, k, k>>)
  /\ UNCHANGED <<root, len, heap, ref, refRet, other, log, grpc>>

\* it.next() / it.next_back() on the cursor of m.into_iter()
IntoIterNext ==
  /\ cur.kind = "IntoIter"
  /\ LET r == IntoIter_next(heap, cur)
     IN \/ Yield(r, "next")
        \/ r.c.stale # {} /\ UseAfterFree(r, "next")

IntoIterNextBack ==
  /\ cur.kind = "IntoIter"
  /\ LET r == IntoIter_next_back(heap, cur)
     IN \/ Yield(r, "next_back")
        \/ r.c.stale # {} /\ UseAfterFree(r, "next_back")

\* drop(it): what the loop takes out is appended to out
IntoIterDrop ==
  /\ cur.kind = "IntoIter"
  /\ LET d == IntoIter_drop(heap, cur, <<>>, {})
     IN \/ /\ cur' = d.c
           /\ out' = out \o [i \in 1..Len(d.items) |->
                               <<"drop", d.items[i][1], d.items[i][2]>>]
           /\ op' = "drop"
           /\ ret' = None
           /\ UNCHANGED <<root, len, heap, ref, refRet, other, log, grpc>>
        \/ d.c.stale # {} /\ UseAfterFree(d, "drop")

\* Trees over the keys 1..MaxIterKey, built by every method that changes
\* the tree, and consumed by one cursor
NextInto ==
  \/ \E k \in IterKeys : Insert(k, k)
  \/ \E k \in IterKeys : Remove(k)
  \/ PopFirst
  \/ PopLast
  \/ Clear
  \/ NewIntoIter
  \/ IntoIterNext
  \/ IntoIterNextBack
  \/ IntoIterDrop

SpecInto == Init /\ [][NextInto]_vars

\* The calls that rebalance the tree, over the keys 1..MaxWatchKey, with the
\* log of each call kept in the state
WatchInsert(k) == Watched(insert(Tree, k, k)) /\ InsertCall(k, k)

WatchRemove(k) == Watched(remove(Tree, k)) /\ RemoveCall(k)

WatchPopFirst == Watched(pop_first(Tree)) /\ PopFirstCall

WatchPopLast == Watched(pop_last(Tree)) /\ PopLastCall

NextWatch ==
  \/ \E k \in WatchKeys : WatchInsert(k)
  \/ \E k \in WatchKeys : WatchRemove(k)
  \/ WatchPopFirst
  \/ WatchPopLast

SpecWatch == Init /\ [][NextWatch]_vars

\* Trees over the keys 1..MaxDeepKey that grow as in the loops of
\* test_lots_of_insertions (for i in 1..101 { m.insert(i, i) }): a new key is
\* above every key of the tree; any key may be removed
AppendInsert(k) ==
  /\ get_last(Tree)[1] < k
  /\ Watched(insert(Tree, k, k))
  /\ InsertCall(k, k)

NextDeep ==
  \/ \E k \in DeepKeys : AppendInsert(k)
  \/ \E k \in DeepKeys : WatchRemove(k)
  \/ WatchPopFirst
  \/ WatchPopLast

SpecDeep == Init /\ [][NextDeep]_vars

\* the sequences of pairs (K, V) that extend and from_iter are given
PairSeqs == UNION {[1..n -> ExtKeys \X Vals] : n \in 0..MaxSeqLen}

\* the reference map once the pairs of seq were put into it in order
RECURSIVE RefExtend(_, _)
RefExtend(m, seq) ==
  IF seq = <<>> THEN m
  ELSE RefExtend([m EXCEPT ![Head(seq)[1]] = Head(seq)[2]], Tail(seq))

\* m.extend(seq)
Extend(seq) ==
  /\ OnThisTree
  /\ SetTree(extend(Tree, seq))
  /\ op' = "extend"
  /\ ret' = None
  /\ refRet' = None
  /\ ref' = RefExtend(ref, seq)

\* m = RBTree::from_iter(seq)
FromIter(seq) ==
  /\ OnThisTree
  /\ SetTree(from_iter(seq))
  /\ op' = "from_iter"
  /\ ret' = None
  /\ refRet' = None
  /\ ref' = RefExtend([k \in Addr |-> None], seq)

\* Trees built by from_iter and changed by extend and remove
NextExt ==
  \/ \E seq \in PairSeqs : Extend(seq)
  \/ \E seq \in PairSeqs : FromIter(seq)
  \/ \E k \in ExtKeys : Remove(k)

SpecExt == Init /\ [][NextExt]_vars

\* ------------------------------------------------------------ grpc_helpers
\* mpsc::channel(): nothing sent, nothing received, both ends alive
channel == [sent |-> 0, recvd |-> 0, tx |-> TRUE, rx |-> TRUE]

\* Sender::send: fails when the receiver was dropped, queues otherwise
send(ch) ==
  IF ch.rx THEN [ok |-> TRUE, ch |-> [ch EXCEPT !.sent = @ + 1]]
  ELSE [ok |-> FALSE, ch |-> ch]

\* Receiver::try_recv: takes a queued message when there is one, fails on
\* an empty queue (whether or not the sender is alive)
try_recv(ch) ==
  IF ch.sent > ch.recvd THEN [ok |-> TRUE, ch |-> [ch EXCEPT !.recvd = @ + 1]]
  ELSE [ok |-> FALSE, ch |-> ch]

\* the caller is one thread: it starts a call only when it is inside none
CallerIdle == \A h \in Handles : handle[h] \in {"none", "held", "dropped"}

\* setup_with_drop_closure, lines 61-67: the channels, the handle, the spawn
SetupSpawn(h, f) ==
  /\ CallerIdle
  /\ handle[h] = "none"
  /\ handle' = [handle EXCEPT ![h] = "spawned"]
  /\ closure' = [closure EXCEPT ![h] = f]
  /\ drop_closure' = [drop_closure EXCEPT ![h] = f]
  /\ thread' = [thread EXCEPT ![h] = "start"]
  /\ server' = [server EXCEPT ![h] = "built"]
  /\ start_ch' = [start_ch EXCEPT ![h] = channel]
  /\ stop_ch' = [stop_ch EXCEPT ![h] = channel]
  /\ UNCHANGED <<runs, tree_vars>>

\* start_receiver.recv().unwrap(), line 78, taken without waiting
SetupRecv_without_waiting(h) ==
  /\ handle[h] = "spawned"
  /\ handle' = [handle EXCEPT ![h] = "received"]
  /\ UNCHANGED <<closure, drop_closure, runs, thread, server, start_ch,
                 stop_ch, tree_vars>>

\* start_receiver.recv().unwrap(), line 78: recv blocks while the queue is
\* empty and the sender is alive (the unwinding of a panic is not followed)
SetupRecv(h) ==
  /\ handle[h] = "spawned"
  /\ start_ch[h].sent > start_ch[h].recvd \/ ~start_ch[h].tx
  /\ LET r == try_recv(start_ch[h]) IN
       /\ handle' = [handle EXCEPT ![h] = IF r.ok THEN "received" ELSE "panicked"]
       /\ start_ch' = [start_ch EXCEPT ![h] = r.ch]
  /\ UNCHANGED <<closure, drop_closure, runs, thread, server, stop_ch,
                 tree_vars>>

\* line 79: setup returns the handle, its start_receiver goes out of scope
SetupReturn(h) ==
  /\ handle[h] = "received"
  /\ handle' = [handle EXCEPT ![h] = "held"]
  /\ start_ch' = [start_ch EXCEPT ![h].rx = FALSE]
  /\ UNCHANGED <<closure, drop_closure, runs, thread, server, stop_ch,
                 tree_vars>>

\* server.start(), line 68
ServiceStart(h) ==
  /\ thread[h] = "start"
  /\ thread' = [thread EXCEPT ![h] = "send"]
  /\ server' = [server EXCEPT ![h] = "started"]
  /\ UNCHANGED <<handle, closure, drop_closure, runs, start_ch, stop_ch,
                 tree_vars>>

\* start_sender.send(()).unwrap(), line 69; a thread that ends drops what
\* its closure owns (the server, start_sender, stop_receiver)
ServiceSendStart(h) ==
  /\ thread[h] = "send"
  /\ LET r == send(start_ch[h]) IN
       IF r.ok
       THEN /\ thread' = [thread EXCEPT ![h] = "poll"]
            /\ start_ch' = [start_ch EXCEPT ![h] = r.ch]
            /\ UNCHANGED <<server, stop_ch>>
       ELSE /\ thread' = [thread EXCEPT ![h] = "panicked"]
            /\ server' = [server EXCEPT ![h] = "dropped"]
            /\ start_ch' = [start_ch EXCEPT ![h].tx = FALSE]
            /\ stop_ch' = [stop_ch EXCEPT ![h].rx = FALSE]
  /\ UNCHANGED <<handle, closure, drop_closure, runs, tree_vars>>

\* lines 71-73 with a try_recv that never sees the message
ServicePoll_deaf(h) ==
  /\ thread[h] = "poll"
  /\ thread' = [thread EXCEPT ![h] = "sleep"]
  /\ UNCHANGED <<handle, closure, drop_closure, runs, server, start_ch,
                 stop_ch, tree_vars>>

\* if stop_receiver.try_recv().is_ok() { return; }, lines 71-73
ServicePoll(h) ==
  /\ thread[h] = "poll"
  /\ LET r == try_recv(stop_ch[h]) IN
       IF r.ok
       THEN /\ thread' = [thread EXCEPT ![h] = "returned"]
            /\ server' = [server EXCEPT ![h] = "dropped"]
            /\ start_ch' = [start_ch EXCEPT ![h].tx = FALSE]
            /\ stop_ch' = [stop_ch EXCEPT ![h] = [r.ch EXCEPT !.rx = FALSE]]
       ELSE /\ thread' = [thread EXCEPT ![h] = "sleep"]
            /\ UNCHANGED <<server, start_ch, stop_ch>>
  /\ UNCHANGED <<handle, closure, drop_closure, runs, tree_vars>>

\* thread::sleep(100 ms), line 74, and back to the head of the loop
ServiceSleep(h) ==
  /\ thread[h] = "sleep"
  /\ thread' = [thread EXCEPT ![h] = "poll"]
  /\ UNCHANGED <<handle, closure, drop_closure, runs, server, start_ch,
                 stop_ch, tree_vars>>

\* the steps of the service thread of h
Service(h) ==
  \/ ServiceStart(h)
  \/ ServiceSendStart(h)
  \/ ServicePoll(h)
  \/ ServiceSleep(h)

\* Drop for ServerHandle, line 88: self.stop_sender.send(()).unwrap()
DropSend(h) ==
  /\ CallerIdle
  /\ handle[h] = "held"
  /\ LET r == send(stop_ch[h]) IN
       /\ handle' = [handle EXCEPT ![h] = IF r.ok THEN "sent" ELSE "panicked"]
       /\ stop_ch' = [stop_ch EXCEPT ![h] = r.ch]
  /\ UNCHANGED <<closure, drop_closure, runs, thread, server, start_ch,
                 tree_vars>>

\* Drop for ServerHandle, lines 89-92: the closure is taken and called, then
\* the fields of the handle are dropped (stop_sender among them)
DropClosure(h) ==
  /\ handle[h] = "sent"
  /\ handle' = [handle EXCEPT ![h] = "dropped"]
  /\ runs' = [runs EXCEPT ![h] = IF drop_closure[h] = "Some" THEN @ + 1 ELSE @]
  /\ drop_closure' = [drop_closure EXCEPT ![h] = "None"]
  /\ stop_ch' = [stop_ch EXCEPT ![h].tx = FALSE]
  /\ UNCHANGED <<closure, thread, server, start_ch, tree_vars>>

\* A program that sets ServerHandles up (with or without a drop closure) and
\* drops them, and their service threads
NextServer ==
  \/ \E h \in Handles, f \in {"None", "Some"} : SetupSpawn(h, f)
  \/ \E h \in Handles : SetupRecv(h)
  \/ \E h \in Handles : SetupReturn(h)
  \/ \E h \in Handles : DropSend(h)
  \/ \E h \in Handles : DropClosure(h)
  \/ \E h \in Handles : ServiceStart(h)
  \/ \E h \in Handles : ServiceSendStart(h)
  \/ \E h \in Handles : ServicePoll(h)
  \/ \E h \in Handles : ServiceSleep(h)

SpecServer == Init /\ [][NextServer]_vars

\* the same program under a scheduler that keeps running every spawned
\* thread that can take a step
SpecServerFair ==
  /\ Init
  /\ [][NextServer]_vars
  /\ \A h \in Handles : WF_vars(Service(h))

\* ------------------------------------------------------------- properties
\* the nodes of the subtree of n: closure of S under the child links
RECURSIVE Closure(_, _)
Closure(h, S) ==
  LET T == (S \cup {left_of(h, x) : x \in S} \cup {right_of(h, x) : x \in S}) \ {Null}
  IN IF T = S THEN S ELSE Closure(h, T)

Subtree(h, n) == IF n = Null THEN {} ELSE Closure(h, {n})

\* the nodes reachable from the root
Nodes == Subtree(heap, root)

\* the number of BLACK nodes on every path from n down to an absent link,
\* or -1 when two such paths disagree (d bounds the depth of the walk)
RECURSIVE BlackHeight(_, _, _)
BlackHeight(h, n, d) ==
  IF n = Null THEN 0
  ELSE IF d = 0 THEN -1
  ELSE LET l == BlackHeight(h, left_of(h, n), d - 1)
           r == BlackHeight(h, right_of(h, n), d - 1)
       IN IF l = -1 \/ r = -1 \/ l # r THEN -1
          ELSE l + (IF h[n].color = "Black" THEN 1 ELSE 0)

AfterMutation == op \in {"insert", "remove", "pop_first", "pop_last"}

\* C1: the stored length equals the number of nodes reachable from the root
LenCountsNodes == len = Cardinality(Nodes)

\* C2: clear() frees every node and leaves root absent and length 0
ClearEmpties == op = "clear" => (root = Null /\ len = 0 /\ heap = EmptyHeap)

\* C3: after insert, remove, pop_first or pop_last the tree is a binary
\* search tree: the keys of a node's left subtree are strictly smaller and
\* the keys of its right subtree strictly greater than the node's key
SearchTree ==
  AfterMutation =>
    \A n \in Nodes :
      /\ \A m \in Subtree(heap, left_of(heap, n)) : heap[m].key < heap[n].key
      /\ \A m \in Subtree(heap, right_of(heap, n)) : heap[m].key > heap[n].key

\* a remove or pop left a tree of at least four nodes with both subtrees
SearchTreeWitness ==
  /\ \/ op = "remove" /\ ret # None
     \/ op \in {"pop_first", "pop_last"} /\ ret # NoPair
  /\ Cardinality(Nodes) >= 4
  /\ left_of(heap, root) # Null /\ right_of(heap, root) # Null

\* C4: after insert, remove, pop_first or pop_last every path from a node
\* down to an absent link passes through the same number of BLACK nodes
BlackBalanced ==
  AfterMutation => \A n \in Nodes : BlackHeight(heap, n, MaxKey + 1) # -1

\* a removal left a tree of black height 2 that still holds a RED node
BlackBalancedWitness ==
  /\ op = "remove" /\ ret # None
  /\ BlackHeight(heap, root, MaxKey + 1) = 2
  /\ \E n \in Nodes : heap[n].color = "Red"

\* C5: after insert, remove, pop_first or pop_last no RED node has a RED child
NoRedRed ==
  AfterMutation =>
    \A n \in Nodes :
      heap[n].color = "Red" =>
        is_black_color(heap, left_of(heap, n)) /\ is_black_color(heap, right_of(heap, n))

\* an insert left a RED node that has two (BLACK) children
NoRedRedWitness ==
  /\ op = "insert"
  /\ \E n \in Nodes :
       /\ heap[n].color = "Red"
       /\ left_of(heap, n) # Null /\ right_of(heap, n) # Null

\* C6: after insert, remove, pop_first or pop_last the root is BLACK or absent
RootBlack == AfterMutation => (root = Null \/ heap[root].color = "Black")

\* a pop removed the root's last neighbour and a single BLACK root is left
RootBlackWitness ==
  /\ op \in {"pop_first", "pop_last"} /\ ret # NoPair
  /\ root # Null /\ Cardinality(Nodes) = 1

\* C7: after insert, remove, pop_first or pop_last the root has no parent,
\* every child's parent link points back to its holder and every other node
\* is exactly the left or the right child of its parent
ParentLinks ==
  AfterMutation =>
    /\ parent_of(heap, root) = Null
    /\ \A n \in Nodes :
         /\ left_of(heap, n) # Null => parent_of(heap, left_of(heap, n)) = n
         /\ right_of(heap, n) # Null => parent_of(heap, right_of(heap, n)) = n
         /\ n # root =>
              LET p == parent_of(heap, n) IN
              /\ p \in Nodes
              /\ (left_of(heap, p) = n) # (right_of(heap, p) = n)

\* a removal left a tree of three levels below which parent links matter
ParentLinksWitness ==
  /\ op = "remove" /\ ret # None
  /\ \E n \in Nodes : n # root /\ parent_of(heap, n) # root

\* C8: driven by the same insert and remove calls, the tree and the
\* reference map return the same result from every call and agree on
\* get(k) and contains_key(k) for every key k, and on len()
MapRefinement ==
  /\ ret = refRet
  /\ \A k \in MapKeys :
       /\ get(Tree, k) = ref[k]
       /\ contains_key(Tree, k) = (ref[k] # None)
  /\ len_of(Tree) = Cardinality(RefKeys(ref))

\* a remove returned a value and four or more entries are left
MapRefinementWitness ==
  /\ op = "remove" /\ ret # None
  /\ Cardinality(RefKeys(ref)) >= 4

\* the links, colours and keys of every cell are the same before and after
SameShape ==
  \A a \in Addr :
    /\ heap'[a].key = heap[a].key
    /\ heap'[a].color = heap[a].color
    /\ heap'[a].parent = heap[a].parent
    /\ heap'[a].left = heap[a].left
    /\ heap'[a].right = heap[a].right

\* the step is the call insert(k, v); the first three conjuncts follow from
\* Insert(k, v) and only select the calls worth comparing
InsertStep(k, v) ==
  op' = "insert" /\ ref'[k] = v /\ refRet' = ref[k] /\ Insert(k, v)

\* C9: insert(k, v2) on a tree that holds k with v1 returns v1, leaves
\* get(k) = v2 and leaves length, shape and colours unchanged; insert of a
\* key that is not present returns None and adds exactly 1 to the length
InsertContract ==
  [][\A k \in MapKeys, v \in Vals :
       InsertStep(k, v) =>
         IF contains_key(Tree, k)
         THEN /\ ret' = get(Tree, k)
              /\ get(TreeNext, k) = v
              /\ len' = len
              /\ root' = root
              /\ SameShape
         ELSE /\ ret' = None
              /\ len' = len + 1]_vars

\* an insert replaced the value of a key in a tree of three or more nodes
InsertContractWitness ==
  /\ op = "insert" /\ ret # None
  /\ Cardinality(Nodes) >= 3

\* C10: immediately after insert(k, v), get(k) returns v
InsertThenGet ==
  [][\A k \in MapKeys, v \in Vals :
       InsertStep(k, v) => get(TreeNext, k) = v]_vars

\* an insert added a node (nothing was replaced) below the root's children
InsertThenGetWitness ==
  /\ op = "insert" /\ ret = None
  /\ \E n \in Nodes : n # root /\ parent_of(heap, n) # root

\* the entries <<key, value>> held by the nodes of a tree
EntriesOf(t) == {<<t.heap[n].key, t.heap[n].value>> : n \in Subtree(t.heap, t.root)}
KeysOf(t) == {t.heap[n].key : n \in Subtree(t.heap, t.root)}

\* C11: on a tree that does not contain k, insert(k, v) followed by
\* remove(k) returns v from the remove and leaves a tree of the initial
\* length on which contains_key(k) is false
RemoveRoundTrip ==
  \A k \in MapKeys, v \in Vals :
    k \notin KeysOf(Tree) =>
      LET r == remove(insert(Tree, k, v).t, k)
      IN /\ r.ret = v
         /\ len_of(r.t) = len_of(Tree)
         /\ ~contains_key(r.t, k)

\* a tree of four nodes on which the round trip of an absent key returns the
\* value and leaves the nodes linked in another shape than before
RemoveRoundTripWitness ==
  /\ Cardinality(Nodes) = 4
  /\ \E k \in MapKeys, v \in Vals :
       /\ k \notin KeysOf(Tree)
       /\ remove(insert(Tree, k, v).t, k).ret = v
       /\ remove(insert(Tree, k, v).t, k).t.heap # heap

\* C12: remove(k) of a key that is not in the tree (the empty tree
\* included) returns None and leaves root, links, colours, values and length
\* as they were
RemoveAbsent ==
  [][\A k \in Keys :
       (op' = "remove" /\ k \notin KeysOf(Tree) /\ Remove(k)) =>
         /\ ret' = None
         /\ root' = root
         /\ heap' = heap
         /\ len' = len]_vars

\* a remove returned None on a tree of three or more nodes
RemoveAbsentWitness ==
  /\ op = "remove" /\ ret = None
  /\ Cardinality(Nodes) >= 3

\* the probes of find_less_equal: every key, one below and one above them
Probes == 0..(MaxKey + 1)

\* C13: find_less_equal(k) returns the node of the largest key <= k, or no
\* node when every key is greater than k; exact is true exactly when k is
\* in the tree, and then the node holds k
FindLessEqual ==
  \A k \in Probes :
    LET r == find_less_equal(Tree, k)
        below == {j \in KeysOf(Tree) : j <= k}
    IN /\ r.exact = (k \in KeysOf(Tree))
       /\ IF below = {} THEN r.node = Null
          ELSE /\ r.node \in Nodes
               /\ heap[r.node].key \in below
               /\ \A j \in below : j <= heap[r.node].key
       /\ r.exact => heap[r.node].key = k

\* a probe between two keys is answered by a node that is not the root and
\* from which the descent went on to the right
FindLessEqualWitness ==
  \E k \in Probes :
    LET r == find_less_equal(Tree, k)
    IN /\ ~r.exact
       /\ r.node # Null /\ r.node # root
       /\ right_of(heap, r.node) # Null
       /\ \E j \in KeysOf(Tree) : j > k

\* C14: on a non-empty tree pop_first returns the entry of the smallest key
\* and pop_last the entry of the largest key; that entry is removed, every
\* other entry is kept, the length decreases by exactly 1, and get_first /
\* get_last return the same entry without removing it
PopContract ==
  [][/\ (op' = "pop_first" /\ root # Null /\ PopFirst) =>
          /\ ret' \in EntriesOf(Tree)
          /\ \A e \in EntriesOf(Tree) : ret'[1] <= e[1]
          /\ EntriesOf(TreeNext) = EntriesOf(Tree) \ {ret'}
          /\ len' = len - 1
          /\ get_first(Tree) = ret'
     /\ (op' = "pop_last" /\ root # Null /\ PopLast) =>
          /\ ret' \in EntriesOf(Tree)
          /\ \A e \in EntriesOf(Tree) : ret'[1] >= e[1]
          /\ EntriesOf(TreeNext) = EntriesOf(Tree) \ {ret'}
          /\ len' = len - 1
          /\ get_last(Tree) = ret']_vars

\* pop_last returned an entry and left five or more entries behind
PopContractWitness ==
  /\ op = "pop_last" /\ ret # NoPair
  /\ Cardinality(Nodes) >= 5

\* a cursor is alive and every call on it had defined behaviour
CursorAlive == cur.kind \in {"Iter", "IterMut"}
\* every item so far came from the method m
OnlyBy(m) == \A i \in 1..Len(out) : out[i][1] = m
\* the keys yielded so far
Yielded == {out[i][2] : i \in 1..Len(out)}

\* C15: repeated next on iter() or iter_mut() (keys() and values() wrap
\* iter()) yields the entries of the tree in strictly ascending key order,
\* the i-th item being the entry of the i-th smallest key, and when next
\* returns None every entry has been yielded exactly once
ForwardIteration ==
  (CursorAlive /\ OnlyBy("next")) =>
    /\ \A i \in 1..Len(out) :
         /\ <<out[i][2], out[i][3]>> \in EntriesOf(Tree)
         /\ Cardinality({j \in KeysOf(Tree) : j < out[i][2]}) = i - 1
    /\ (op = "next" /\ ret = NoPair) => Len(out) = Cardinality(Nodes)

\* next returned None after it had yielded four or more entries
ForwardIterationWitness ==
  /\ CursorAlive /\ OnlyBy("next")
  /\ op = "next" /\ ret = NoPair
  /\ Len(out) >= 4

\* C16: repeated next_back (and no next) on iter() or iter_mut() over a
\* tree of n entries yields all n entries in strictly descending key order
ReverseIteration ==
  (CursorAlive /\ OnlyBy("next_back") /\ op = "next_back" /\ ret = NoPair) =>
    /\ Len(out) = Cardinality(Nodes)
    /\ \A i \in 1..Len(out) :
         /\ <<out[i][2], out[i][3]>> \in EntriesOf(Tree)
         /\ Cardinality({j \in KeysOf(Tree) : j > out[i][2]}) = i - 1

\* C17: whatever the interleaving of next and next_back on one cursor, no
\* entry is yielded more than once
NoRepeat ==
  CursorAlive =>
    \A i, j \in 1..Len(out) : i # j => out[i][2] # out[j][2]

\* C18: size_hint() returns <<r, r>> where r is the number of entries of
\* the tree that the cursor has not yielded yet
SizeHintExact ==
  CursorAlive =>
    LET r == Cardinality(KeysOf(Tree) \ Yielded)
    IN size_hint(cur) = <<r, r>>

\* what the public methods that take &self tell about a tree
Observe(t) ==
  [len |-> len_of(t),
   is_empty |-> is_empty(t),
   get |-> [k \in PairKeys |-> get(t, k)],
   contains_key |-> [k \in PairKeys |-> contains_key(t, k)],
   first |-> get_first(t),
   last |-> get_last(t)]

\* the cells of t and u hold the same keys, values and colours under the
\* same links, from the same root, with the same length
SameTree(t, u) ==
  /\ u.root = t.root
  /\ u.len = t.len
  /\ \A a \in Addr : u.heap[a] = t.heap[a]

EqualityBySet ==
  /\ eq(Tree, Tree)
  /\ eq(other, other)
  /\ IF EntriesOf(Tree) = EntriesOf(other)
     THEN eq(Tree, other) /\ eq(other, Tree)
     ELSE ~eq(Tree, other) /\ ~eq(other, Tree)

\* C25: insert, remove, pop_first and pop_last write nothing to standard
\* output, the rotations they perform included
NoOutput == log.stdout = <<>>

\* C26: every call of insert, remove, pop_first and pop_last ends, and
\* the loops of insert_fixup and delete_fixup end after finitely many
\* iterations: an iteration starts with node below the root, and each
\* further iteration starts with node strictly closer to the root
FixupLoopsClimb ==
  /\ \A i \in 1..Len(log.path) : log.path[i] >= 2
  /\ \A i \in 1..(Len(log.path) - 1) : log.path[i + 1] < log.path[i]

\* a remove whose fix-up loop ran twice
FixupLoopsClimbWitness ==
  /\ op = "remove"
  /\ Len(log.path) >= 2

SuccessorByKey(n) ==
  CHOOSE s \in Nodes :
    /\ heap[s].key > heap[n].key
    /\ \A j \in Nodes : heap[j].key > heap[n].key => heap[s].key <= heap[j].key

\* <<root, heap>> once s stands where n stood: s has the parent, the left
\* subtree and the colour of n, and its right subtree unless s was the
\* right child of n; what pointed to n points to s; the former right
\* child of s hangs where s hung
ExpectedSplice(n, s) ==
  LET h == heap
      c == h[s].right
      sp == h[s].parent
      far == sp # n
      cell(a) ==
        [key |-> h[a].key,
         value |-> h[a].value,
         color |-> IF a = s THEN h[n].color ELSE h[a].color,
         parent |-> IF a = s THEN h[n].parent
                    ELSE IF a = h[n].left \/ a = h[n].right THEN s
                    ELSE IF far /\ a = c THEN sp
                    ELSE h[a].parent,
         left |-> IF a = s THEN h[n].left
                  ELSE IF far /\ a = sp THEN c
                  ELSE IF a = h[n].parent /\ h[a].left = n THEN s
                  ELSE h[a].left,
         right |-> IF a = s THEN (IF far THEN h[n].right ELSE c)
                   ELSE IF a = h[n].parent /\ h[a].right = n THEN s
                   ELSE h[a].right]
  IN <<IF h[n].parent = Null THEN s ELSE root, [a \in Addr |-> cell(a)]>>

\* C28: when delete takes out a node n with two children, its successor
\* takes the position and the colour of n, the former right subtree of the
\* successor is attached where the successor was, and delete_fixup is run
\* exactly when the successor was BLACK; when n has at most one child,
\* delete_fixup is run exactly when n was BLACK; delete_fixup gets the
\* child that filled the hole and the node that holds the hole
DeleteSplices ==
  [][\A n \in Nodes \ Subtree(heap', root') :
       LET two == heap[n].left # Null /\ heap[n].right # Null
           s == SuccessorByKey(n)
           lost == IF two THEN heap[s].color ELSE heap[n].color
           child == IF two THEN heap[s].right
                    ELSE IF heap[n].left # Null THEN heap[n].left
                    ELSE heap[n].right
           holder == IF ~two THEN heap[n].parent
                     ELSE IF heap[s].parent = n THEN s
                     ELSE heap[s].parent
       IN /\ log'.splice = IF two THEN ExpectedSplice(n, s) ELSE <<>>
          /\ log'.fixup = IF lost = "Black" THEN <<child, holder>> ELSE <<>>]_vars

\* a remove spliced in a BLACK successor that had a right child and was
\* not the right child of the removed node
DeleteSplicesWitness ==
  /\ op = "remove"
  /\ log.splice # <<>>
  /\ Len(log.fixup) = 2
  /\ log.fixup[1] # Null
  /\ log.path = <<>>

\* C22: tree[&k] returns the value stored under k when k is present and
\* panics when k is absent
IndexContract ==
  \A k \in Probes :
    LET r == index(Tree, k)
    IN IF k \in KeysOf(Tree)
       THEN ~r.panic /\ <<k, r.ret>> \in EntriesOf(Tree)
       ELSE r.panic

\* a tree of three entries or more where two keys hold different values
\* and a key between two present keys is absent
IndexContractWitness ==
  /\ Cardinality(Nodes) >= 3
  /\ \E j, k \in KeysOf(Tree) : index(Tree, j).ret # index(Tree, k).ret
  /\ \E k \in Probes :
       /\ index(Tree, k).panic
       /\ \E i, j \in KeysOf(Tree) : i < k /\ k < j

\* C29: in every state reached by insert, remove, pop_first, pop_last and
\* clear, is_empty() is true exactly when len() is 0
EmptyIffLenZero == is_empty(Tree) <=> len_of(Tree) = 0

\* what a walk of the cursor c by next yields, in order
RECURSIVE Walked(_, _)
Walked(h, c) ==
  LET r == Iter_next(h, c) IN
  IF r.ret = NoPair THEN <<>> ELSE <<r.ret>> \o Walked(h, r.c)

\* the pairs of the reference map m with a key in S, sorted by key
RECURSIVE SortedPairs(_, _)
SortedPairs(m, S) ==
  IF S = {} THEN <<>>
  ELSE LET k == CHOOSE j \in S : \A i \in S : j <= i
       IN <<<<k, m[k]>>>> \o SortedPairs(m, S \ {k})

\* C24: extend(seq) has the effect of an insert of every pair of seq in
\* order, a later pair replacing the value of an earlier or pre-existing
\* equal key; a tree built by from_iter iterates as the pairs it was given,
\* sorted by key
ExtendContract ==
  /\ op \in {"extend", "from_iter"} =>
       /\ EntriesOf(Tree) = {<<k, ref[k]>> : k \in RefKeys(ref)}
       /\ len_of(Tree) = Cardinality(RefKeys(ref))
  /\ op = "from_iter" => Walked(heap, iter(Tree)) = SortedPairs(ref, RefKeys(ref))

\* from_iter was given two pairs with the larger key first
ExtendContractWitness ==
  /\ op = "from_iter"
  /\ Cardinality(Nodes) = 2
  /\ left_of(heap, root) # Null
  /\ heap[root].value # heap[left_of(heap, root)].value

\* the positions in out of the items that the given methods took out
TakenBy(methods) == {i \in 1..Len(out) : out[i][1] \in methods}

\* C21: into_iter yields every entry of the tree exactly once, the i-th
\* item that next (or the loop of drop) takes from the front being the
\* entry of the i-th smallest key; once the cursor is dropped every node of
\* the tree has been deallocated, and none of them twice, whatever calls of
\* next and next_back went before
ConsumingIteration ==
  cur.kind \in {"IntoIter", "dropped"} =>
    /\ \A i, j \in 1..Len(out) : i # j => out[i][2] # out[j][2]
    /\ \A i \in 1..Len(out) :
         /\ out[i][2] \in RefKeys(ref)
         /\ out[i][3] = ref[out[i][2]]
    /\ \A i \in TakenBy({"next", "drop"}) :
         Cardinality({j \in RefKeys(ref) : j < out[i][2]})
           = Cardinality({j \in TakenBy({"next", "drop"}) : j < i})
    /\ cur.kind = "dropped" => {out[i][2] : i \in 1..Len(out)} = RefKeys(ref)

\* C30: no call of next or next_back on the consuming cursor, and no step
\* of its drop, reads a field of a node that an earlier step deallocated
NoFreedRead ==
  cur.kind \in {"IntoIter", "dropped", "undefined"} => cur.stale = {}

\* C23: on a tree that holds no entries remove, get, pop_first, pop_last and
\* find_less_equal return absent, len() is 0, is_empty() is true, and the
\* cursors of iter, iter_mut and into_iter yield nothing from either end;
\* an insert followed by a remove of the same key leads back to such a tree
EmptyTreeContract ==
  Nodes = {} =>
    /\ \A k \in Probes :
         /\ remove(Tree, k).ret = None
         /\ get(Tree, k) = None
         /\ find_less_equal(Tree, k).node = Null
    /\ pop_first(Tree).ret = NoPair
    /\ pop_last(Tree).ret = NoPair
    /\ len_of(Tree) = 0
    /\ is_empty(Tree)
    /\ Iter_next(heap, iter(Tree)).ret = NoPair
    /\ Iter_next_back(heap, iter(Tree)).ret = NoPair
    /\ IterMut_next(heap, iter_mut(Tree)).ret = NoPair
    /\ IterMut_next_back(heap, iter_mut(Tree)).ret = NoPair
    /\ IntoIter_next(heap, into_iter(Tree)).ret = NoPair
    /\ IntoIter_next_back(heap, into_iter(Tree)).ret = NoPair
    /\ \A k \in Keys :
         LET t == remove(insert(Tree, k, k).t, k).t
         IN /\ is_empty(t)
            /\ len_of(t) = 0
            /\ Subtree(t.heap, t.root) = {}

\* a handle that setup has returned to its caller
Returned(h) == handle[h] \in {"held", "sent", "dropped"}

\* C31: setup_with_drop_closure returns the handle only after the service
\* thread has completed server.start(): the start signal is sent only after
\* start, and it was received before setup returned
SetupAfterStart ==
  \A h \in Handles :
    /\ start_ch[h].sent > 0 => server[h] \in {"started", "dropped"}
    /\ Returned(h) =>
         /\ server[h] \in {"started", "dropped"}
         /\ start_ch[h].sent = 1
         /\ start_ch[h].recvd = 1

SetupAfterStartWitness ==
  \E h \in Handles :
    handle[h] = "held" /\ server[h] = "started" /\ thread[h] = "sleep"

\* C32: once a handle is dropped its service thread eventually sees the stop
\* message in its loop and returns; the send in drop never fails, no thread
\* ending before the stop message was sent; the drop closure, when there is
\* one, runs exactly once
DropStopsThread ==
  /\ \A h \in Handles : (handle[h] = "dropped") ~> (thread[h] = "returned")
  /\ [](\A h \in Handles :
          /\ handle[h] # "panicked"
          /\ thread[h] # "panicked"
          /\ thread[h] = "returned" => stop_ch[h].sent = 1
          /\ runs[h] <= 1
          /\ handle[h] = "dropped" =>
               runs[h] = (IF closure[h] = "Some" THEN 1 ELSE 0)
          /\ handle[h] # "dropped" => runs[h] = 0)

DropStopsThreadWitness ==
  \E h \in Handles :
    /\ handle[h] = "dropped"
    /\ thread[h] = "returned"
    /\ closure[h] = "Some"
    /\ runs[h] = 1

====
